---- MODULE Spec2Model ----
(***************************************************************************)
(* A model of src/png.py: the Chunk record and the PNG container (parse,   *)
(* validate, lookup, byte-range mutation, export).  Byte strings are       *)
(* sequences of integers 0..255; Python's 0-based half-open slices are     *)
(* modelled by Slice.  32-bit checksums are kept as 4-byte big-endian      *)
(* sequences so that no intermediate value exceeds the integer range.      *)
(***************************************************************************)
EXTENDS Integers, Sequences, FiniteSets, TLC

VARIABLES recs, data, state, chunks, meta, err, last, exported, records, found, nops

vars == <<recs, data, state, chunks, meta, err, last, exported, records, found, nops>>

----------------------------------------------------------------------------
(* Bounds of the model *)

MaxRecs == 4

MaxOps == 3

----------------------------------------------------------------------------
(* Byte-string helpers (Python bytes semantics) *)

Min(a, b) == IF a < b THEN a ELSE b

\* Python s[a:b] for 0 <= a, 0 <= b (indices clamp to the length)
Slice(s, a, b) ==
  LET lo == Min(a, Len(s))
      hi == Min(b, Len(s))
  IN IF lo >= hi THEN << >> ELSE SubSeq(s, lo + 1, hi)

\* Python s[a:] (a negative start counts from the end, clamped at 0)
SliceFrom(s, a) ==
  IF a >= 0 THEN Slice(s, a, Len(s))
  ELSE Slice(s, IF Len(s) + a > 0 THEN Len(s) + a ELSE 0, Len(s))

RECURSIVE Pow256(_)
Pow256(k) == IF k = 0 THEN 1 ELSE 256 * Pow256(k - 1)

\* n.to_bytes(k, byteorder='big') for 0 <= n < 256^k
RECURSIVE ToBytes(_, _)
ToBytes(n, k) == IF k = 0 THEN << >> ELSE Append(ToBytes(n \div 256, k - 1), n % 256)

\* int.from_bytes(s, byteorder='big'); the empty string gives 0
RECURSIVE FromBytes(_)
FromBytes(s) ==
  IF Len(s) = 0 THEN 0 ELSE 256 * FromBytes(SubSeq(s, 1, Len(s) - 1)) + s[Len(s)]

RECURSIVE Flatten(_)
Flatten(ss) == IF Len(ss) = 0 THEN << >> ELSE Head(ss) \o Flatten(Tail(ss))

----------------------------------------------------------------------------
(* binascii.crc32: the reflected CRC-32 (polynomial EDB88320), initial     *)
(* value and final xor FFFFFFFF, computed bytewise with the usual table.   *)

RECURSIVE XorBits(_, _, _)
XorBits(a, b, n) ==
  IF n = 0 THEN 0
  ELSE ((a + b) % 2) + 2 * XorBits(a \div 2, b \div 2, n - 1)

Xor8Table == [a \in 0..255 |-> [b \in 0..255 |-> XorBits(a, b, 8)]]

Xor8(a, b) == Xor8Table[a][b]

Xor32(x, y) == << Xor8(x[1], y[1]), Xor8(x[2], y[2]), Xor8(x[3], y[3]), Xor8(x[4], y[4]) >>

\* logical shift right by one bit of a 4-byte big-endian word
Shr1(x) == << x[1] \div 2,
              (x[1] % 2) * 128 + x[2] \div 2,
              (x[2] % 2) * 128 + x[3] \div 2,
              (x[3] % 2) * 128 + x[4] \div 2 >>

CrcPoly == << 237, 184, 131, 32 >>

RECURSIVE CrcTableEntry(_, _)
CrcTableEntry(c, n) ==
  IF n = 0 THEN c
  ELSE CrcTableEntry(IF c[4] % 2 = 1 THEN Xor32(Shr1(c), CrcPoly) ELSE Shr1(c), n - 1)

CrcTable == [b \in 0..255 |-> CrcTableEntry(<<0, 0, 0, b>>, 8)]

RECURSIVE CrcUpdate(_, _)
CrcUpdate(c, s) ==
  IF Len(s) = 0 THEN c
  ELSE CrcUpdate(Xor32(CrcTable[Xor8(c[4], Head(s))], <<0, c[1], c[2], c[3]>>), Tail(s))

\* crc32(s).to_bytes(4, byteorder='big')
crc32(s) == Xor32(CrcUpdate(<<255, 255, 255, 255>>, s), <<255, 255, 255, 255>>)

----------------------------------------------------------------------------
(* bytes.decode('utf-8'): TRUE iff the byte string is well-formed UTF-8    *)

IsCont(b) == b >= 128 /\ b <= 191

RECURSIVE Utf8Valid(_)
Utf8Valid(s) ==
  IF Len(s) = 0 THEN TRUE
  ELSE LET b == s[1]
           n == Len(s)
       IN IF b <= 127 THEN Utf8Valid(Tail(s))
          ELSE IF b >= 194 /\ b <= 223
            THEN n >= 2 /\ IsCont(s[2]) /\ Utf8Valid(SliceFrom(s, 2))
          ELSE IF b >= 224 /\ b <= 239
            THEN /\ n >= 3
                 /\ IsCont(s[2]) /\ IsCont(s[3])
                 /\ (b = 224 => s[2] >= 160)
                 /\ (b = 237 => s[2] <= 159)
                 /\ Utf8Valid(SliceFrom(s, 3))
          ELSE IF b >= 240 /\ b <= 244
            THEN /\ n >= 4
                 /\ IsCont(s[2]) /\ IsCont(s[3]) /\ IsCont(s[4])
                 /\ (b = 240 => s[2] >= 144)
                 /\ (b = 244 => s[2] <= 143)
                 /\ Utf8Valid(SliceFrom(s, 4))
          ELSE FALSE

----------------------------------------------------------------------------
(* Module constants of png.py *)

PNG_HEADER == << 137, 80, 78, 71, 13, 10, 26, 10 >>

PNG_FOOTER == << 73, 69, 78, 68, 174, 66, 96, 130 >>

IHDR == << 73, 72, 68, 82 >>
PLTE == << 80, 76, 84, 69 >>
IDAT == << 73, 68, 65, 84 >>
IEND == << 73, 69, 78, 68 >>
bKGD == << 98, 75, 71, 68 >>
cHRM == << 99, 72, 82, 77 >>
dSIG == << 100, 83, 73, 71 >>
eXIF == << 101, 88, 73, 70 >>
gAMA == << 103, 65, 77, 65 >>
hIST == << 104, 73, 83, 84 >>
iCCP == << 105, 67, 67, 80 >>
iTXt == << 105, 84, 88, 116 >>
pHYs == << 112, 72, 89, 115 >>
sBIT == << 115, 66, 73, 84 >>
sPLT == << 115, 80, 76, 84 >>
sRGB == << 115, 82, 71, 66 >>
sTER == << 115, 84, 69, 82 >>
tEXt == << 116, 69, 88, 116 >>
tIME == << 116, 73, 77, 69 >>
tRNS == << 116, 82, 78, 83 >>
zTXt == << 122, 84, 88, 116 >>

CRITICAL_CHUNKS == { IHDR, PLTE, IDAT, IEND }

ANCILLARY_CHUNKS ==
  { bKGD, cHRM, dSIG, eXIF, gAMA, hIST, iCCP, iTXt,
    pHYs, sBIT, sPLT, sRGB, sTER, tEXt, tIME, tRNS, zTXt }

----------------------------------------------------------------------------
(* Outcomes of a call: the exception raised, if any.  The kinds carry the  *)
(* names the specification gives them; the exceptions of the source are    *)
(*   Exception('Valid PNG header and/or footer not found')  FormatError    *)
(*   RuntimeWarning('Unknown chunk type ...')        UnknownChunkError     *)
(*   RuntimeError('Chunk of type ... already exists') DuplicateChunkError  *)
(*   RuntimeError('No ... chunk detected in PNG')     MissingChunkError    *)
(*   Exception('Grayscale images currently unsupported')                   *)
(*                                              UnsupportedFeatureError    *)
(* and the interpreter's own UnicodeDecodeError, AttributeError and        *)
(* OverflowError.  type is the chunk tag the exception is about.           *)

NoError == [kind |-> "none", type |-> << >>]

Error(k, t) == [kind |-> k, type |-> t]

----------------------------------------------------------------------------
(* class Chunk *)

calculate_crc32(c) == [c EXCEPT !.crc32 = crc32(c.type \o c.data)]

Chunk(init_type, init_data) ==
  calculate_crc32([size  |-> ToBytes(Len(init_data), 4),
                   type  |-> init_type,
                   data  |-> init_data,
                   crc32 |-> << >>])

int_size(c) == FromBytes(c.size)

\* a variant of export_chunk that emits the stored checksum as it is
export_chunk_stored_crc(c) ==
  [chunk |-> c, out |-> c.size \o c.type \o c.data \o c.crc32]

\* export_chunk refreshes the stored checksum and returns the record bytes
export_chunk(c) ==
  LET r == calculate_crc32(c)
  IN [chunk |-> r, out |-> r.size \o r.type \o r.data \o r.crc32]

----------------------------------------------------------------------------
(* class PNG *)

\* The three shapes get_chunk_by_type returns: None, one item, a list
None == [kind |-> "None", val |-> << >>]

One(x) == [kind |-> "One", val |-> << x >>]

Many(xs) == [kind |-> "Many", val |-> xs]

NotRequested == [kind |-> "NotRequested", val |-> << >>]

\* the loop of get_chunk_by_type: 0-based positions of the matching chunks
RECURSIVE index_finds(_, _, _)
index_finds(cs, chunk_type, k) ==
  IF k > Len(cs) THEN << >>
  ELSE (IF cs[k].type = chunk_type THEN << k - 1 >> ELSE << >>)
         \o index_finds(cs, chunk_type, k + 1)

\* the chunks at those positions, in the same order
RECURSIVE chunk_finds_at(_, _)
chunk_finds_at(cs, idx) ==
  IF Len(idx) = 0 THEN << >>
  ELSE << cs[Head(idx) + 1] >> \o chunk_finds_at(cs, Tail(idx))

\* a variant of the lookup that returns a list whenever there is a match
get_chunk_by_type_always_list(cs, chunk_type, bool_return_index) ==
  LET idx == index_finds(cs, chunk_type, 1)
      chunk_finds == chunk_finds_at(cs, idx)
  IN [index |-> IF ~bool_return_index THEN NotRequested
                ELSE IF Len(idx) >= 1 THEN Many(idx) ELSE None,
      chunk |-> IF Len(chunk_finds) >= 1 THEN Many(chunk_finds) ELSE None]

get_chunk_by_type(cs, chunk_type, bool_return_index) ==
  LET idx == index_finds(cs, chunk_type, 1)
      chunk_finds == chunk_finds_at(cs, idx)
      return_index == IF Len(idx) > 1 THEN Many(idx)
                      ELSE IF Len(idx) = 1 THEN One(idx[1])
                      ELSE None
      return_chunk == IF Len(chunk_finds) > 1 THEN Many(chunk_finds)
                      ELSE IF Len(chunk_finds) = 1 THEN One(chunk_finds[1])
                      ELSE None
  IN [index |-> IF bool_return_index THEN return_index ELSE NotRequested,
      chunk |-> return_chunk]

\* set_value_at_index: slicing never raises; to_bytes raises OverflowError
\* when new_value does not fit in num_bytes bytes
set_value_at_index(cs, chunk_index, index, new_value, num_bytes) ==
  LET d == cs[chunk_index + 1].data
      before_current == Slice(d, 0, index)
      after_current == SliceFrom(d, index + num_bytes)
  IN IF new_value >= Pow256(num_bytes)
     THEN [err |-> Error("OverflowError", << >>), chunks |-> cs]
     ELSE [err |-> NoError,
           chunks |-> [cs EXCEPT ![chunk_index + 1].data =
                         before_current \o ToBytes(new_value, num_bytes) \o after_current]]

\* a variant of the duplicate test that forgets the IDAT exemption
is_duplicate_any_critical(cs, chunk_type) ==
  /\ get_chunk_by_type(cs, chunk_type, FALSE).chunk # None
  /\ chunk_type \in CRITICAL_CHUNKS

\* the duplicate test of __split_chunks__: a critical type other than IDAT
\* that is already in the list
is_duplicate(cs, chunk_type) ==
  /\ get_chunk_by_type(cs, chunk_type, FALSE).chunk # None
  /\ chunk_type \in CRITICAL_CHUNKS
  /\ chunk_type # IDAT

\* the while loop of __split_chunks__, from cursor i with cs parsed so far
RECURSIVE split_loop(_, _, _)
split_loop(d, i, cs) ==
  IF ~(i < Len(d)) THEN [err |-> NoError, chunks |-> cs]
  ELSE
    LET size == Slice(d, i, i + 4)
        chunk_size == FromBytes(size)
        chunk_type == Slice(d, i + 4, i + 8)
        chunk_data == Slice(d, i + 8, i + 8 + chunk_size)
        original_crc32 == Slice(d, i + 8 + chunk_size, i + 12 + chunk_size)
        new_chunk == [size |-> size, type |-> chunk_type,
                      data |-> chunk_data, crc32 |-> original_crc32]
    IN IF ~Utf8Valid(chunk_type)
         THEN [err |-> Error("UnicodeDecodeError", chunk_type), chunks |-> << >>]
       ELSE IF chunk_type \notin CRITICAL_CHUNKS /\ chunk_type \notin ANCILLARY_CHUNKS
         THEN [err |-> Error("UnknownChunkError", chunk_type), chunks |-> << >>]
       ELSE IF is_duplicate(cs, chunk_type)
         THEN [err |-> Error("DuplicateChunkError", chunk_type), chunks |-> << >>]
       ELSE split_loop(d, i + 12 + chunk_size, Append(cs, new_chunk))

split_chunks(d) == split_loop(d, Len(PNG_HEADER), << >>)

\* the comparison 'get_chunk_by_type(b'PLTE') == -1': the lookup returns
\* None, a Chunk or a list, none of which equals the integer -1
EqualsMinusOne(r) == r.kind = "Int" /\ r.val = << -1 >>

RECURSIVE missing_required(_, _)
missing_required(cs, types) ==
  IF Len(types) = 0 THEN NoError
  ELSE IF get_chunk_by_type(cs, Head(types), FALSE).chunk = None
         THEN Error("MissingChunkError", Head(types))
       ELSE missing_required(cs, Tail(types))

\* a variant of the validation that does not require the end marker
validate_chunks_without_IEND(cs, color_type) ==
  missing_required(cs, << IHDR, IDAT >>)

validate_chunks(cs, color_type) ==
  LET e == missing_required(cs, << IHDR, IDAT, IEND >>)
  IN IF e # NoError THEN e
     ELSE IF color_type = 3 /\ EqualsMinusOne(get_chunk_by_type(cs, PLTE, FALSE).chunk)
       THEN Error("MissingChunkError", IEND)
     ELSE NoError

NoMeta == [width |-> 0, height |-> 0, bit_depth |-> 0, color_type |-> 0,
           compression_method |-> 0, filter_method |-> 0, interlace_method |-> 0]

\* PNG.__init__: the raised exception, or the constructed object's fields
PNG(d) ==
  LET fail(e) == [err |-> e, chunks |-> << >>, meta |-> NoMeta]
  IN IF \/ Slice(d, 0, Len(PNG_HEADER)) # PNG_HEADER
        \/ SliceFrom(d, Len(d) - Len(PNG_FOOTER)) # PNG_FOOTER
     THEN fail(Error("FormatError", << >>))
     ELSE
       LET sp == split_chunks(d)
           header_chunk == get_chunk_by_type(sp.chunks, IHDR, FALSE).chunk
       IN IF sp.err # NoError THEN fail(sp.err)
          ELSE IF header_chunk = None THEN fail(Error("AttributeError", IHDR))
          ELSE
            LET meta_info == header_chunk.val[1].data
                m == [width              |-> FromBytes(Slice(meta_info, 0, 4)),
                      height             |-> FromBytes(Slice(meta_info, 4, 8)),
                      bit_depth          |-> FromBytes(Slice(meta_info, 8, 9)),
                      color_type         |-> FromBytes(Slice(meta_info, 9, 10)),
                      compression_method |-> FromBytes(Slice(meta_info, 10, 11)),
                      filter_method      |-> FromBytes(Slice(meta_info, 11, 12)),
                      interlace_method   |-> FromBytes(Slice(meta_info, 12, 13))]
                v == validate_chunks(sp.chunks, m.color_type)
            IN IF v # NoError THEN fail(v)
               ELSE IF m.color_type = 0 \/ m.color_type = 4
                 THEN fail(Error("UnsupportedFeatureError", << >>))
               ELSE [err |-> NoError, chunks |-> sp.chunks, meta |-> m]

\* export_image: validation failure returns no bytes; otherwise every chunk
\* is encoded (refreshing its stored checksum) after the signature
RECURSIVE export_chunks(_)
export_chunks(cs) ==
  IF Len(cs) = 0 THEN [chunks |-> << >>, records |-> << >>]
  ELSE LET e == export_chunk(Head(cs))
           rest == export_chunks(Tail(cs))
       IN [chunks |-> << e.chunk >> \o rest.chunks,
           records |-> << e.out >> \o rest.records]

\* a variant of the export that leaves out the signature
export_image_without_signature(cs, color_type) ==
  LET v == validate_chunks(cs, color_type)
      ex == export_chunks(cs)
  IN IF v # NoError
     THEN [err |-> v, chunks |-> cs, records |-> << >>, out |-> << >>]
     ELSE [err |-> NoError, chunks |-> ex.chunks, records |-> ex.records,
           out |-> Flatten(ex.records)]

export_image(cs, color_type) ==
  LET v == validate_chunks(cs, color_type)
      ex == export_chunks(cs)
  IN IF v # NoError
     THEN [err |-> v, chunks |-> cs, records |-> << >>, out |-> << >>]
     ELSE [err |-> NoError,
           chunks |-> ex.chunks,
           records |-> ex.records,
           out |-> PNG_HEADER \o Flatten(ex.records)]

----------------------------------------------------------------------------
(* Input buffers.  A buffer is a signature followed by chunk records; recs *)
(* remembers the records the buffer was assembled from (size field, tag,   *)
(* payload, stored checksum), data is the byte string handed to PNG().     *)

RecBytes(r) == r.size \o r.type \o r.data \o r.crc32

RECURSIVE RecsBytes(_)
RecsBytes(rs) == IF Len(rs) = 0 THEN << >> ELSE RecBytes(Head(rs)) \o RecsBytes(Tail(rs))

IHDRRec(c) == Chunk(IHDR, << 0, 0, 0, 1, 0, 0, 0, 1, 8, c, 0, 0, 0 >>)

\* a record whose stored checksum does not match its tag and payload
BadCrc(c) == [c EXCEPT !.crc32 = << 0, 0, 0, 0 >>]

\* an end-marker record declaring 4 payload bytes, cut off after them
TruncatedIEND == [size |-> << 0, 0, 0, 4 >>, type |-> IEND,
                  data |-> << 174, 66, 96, 130 >>, crc32 |-> << >>]

\* a text record whose payload is the terminator pattern, checksum cut off
TrailingText == [size |-> << 0, 0, 0, 8 >>, type |-> tEXt,
                 data |-> PNG_FOOTER, crc32 |-> << >>]

UnknownTag == << 97, 98, 67, 68 >>

NonUtf8Tag == << 97, 255, 67, 68 >>

BadSignature == << 137, 80, 78, 71, 13, 10, 26, 11 >>

RecMenu ==
  { IHDRRec(2), IHDRRec(3), IHDRRec(0),
    Chunk(IDAT, << 5 >>), BadCrc(Chunk(IDAT, << 6 >>)),
    Chunk(PLTE, << 1, 2, 3 >>), Chunk(IEND, << >>),
    Chunk(sRGB, << 0 >>), Chunk(UnknownTag, << >>), Chunk(NonUtf8Tag, << >>),
    TruncatedIEND, TrailingText }

ParseInputs == UNION { [1..n -> RecMenu] : n \in 0..MaxRecs }

SeedInputs ==
  { << IHDRRec(2), Chunk(IDAT, << 5 >>), Chunk(IEND, << >>) >>,
    << IHDRRec(3), Chunk(PLTE, << 1, 2, 3 >>), BadCrc(Chunk(IDAT, << 6 >>)),
       Chunk(IEND, << >>) >> }

----------------------------------------------------------------------------
(* The calls a client makes.  last records the most recent call and its    *)
(* arguments; exported, records and found hold what it returned.           *)

NoCall == [op |-> "none", chunk_index |-> 0, index |-> 0, new_value |-> 0,
           num_bytes |-> 0, type |-> << >>, payload |-> << >>, want_index |-> FALSE]

SetArgs == { << 0, 7, 1 >>, << 1, 300, 2 >>, << 0, 300, 1 >> }

AppendArgs == { << IDAT, << 9 >> >>, << tEXt, << >> >> }

PayloadArgs == { << >>, << 9, 9 >> }

LookupTags == { IHDR, IDAT, tIME }

InitCommon ==
  /\ state = "new"
  /\ chunks = << >>
  /\ meta = NoMeta
  /\ err = NoError
  /\ last = NoCall
  /\ exported = << >>
  /\ records = << >>
  /\ found = [index |-> NotRequested, chunk |-> None]
  /\ nops = 0

Init ==
  /\ recs \in SeedInputs
  /\ data = PNG_HEADER \o RecsBytes(recs)
  /\ InitCommon

InitParse ==
  /\ recs \in ParseInputs
  /\ \E sig \in { PNG_HEADER, BadSignature } : data = sig \o RecsBytes(recs)
  /\ InitCommon

\* newPNG = PNG(data)
Construct ==
  /\ state = "new"
  /\ LET r == PNG(data)
     IN /\ state' = IF r.err = NoError THEN "parsed" ELSE "failed"
        /\ chunks' = r.chunks
        /\ meta' = r.meta
        /\ err' = r.err
  /\ last' = [NoCall EXCEPT !.op = "construct"]
  /\ exported' = << >>
  /\ records' = << >>
  /\ found' = [index |-> NotRequested, chunk |-> None]
  /\ UNCHANGED << recs, data, nops >>

Ready == state = "parsed" /\ nops < MaxOps

\* newPNG.export_image()
ExportImage ==
  /\ Ready
  /\ LET r == export_image(chunks, meta.color_type)
     IN /\ chunks' = r.chunks
        /\ err' = r.err
        /\ exported' = r.out
        /\ records' = r.records
  /\ last' = [NoCall EXCEPT !.op = "export"]
  /\ found' = [index |-> NotRequested, chunk |-> None]
  /\ nops' = nops + 1
  /\ UNCHANGED << recs, data, state, meta >>

\* newPNG.get_chunk_by_type(t, bool_return_index=w)
Lookup ==
  /\ Ready
  /\ \E t \in LookupTags, w \in BOOLEAN :
       /\ found' = get_chunk_by_type(chunks, t, w)
       /\ last' = [NoCall EXCEPT !.op = "lookup", !.type = t, !.want_index = w]
  /\ err' = NoError
  /\ exported' = << >>
  /\ records' = << >>
  /\ nops' = nops + 1
  /\ UNCHANGED << recs, data, state, chunks, meta >>

\* newPNG.set_value_at_index(ci, a[1], a[2], a[3])
SetValueAtIndex ==
  /\ Ready
  /\ \E ci \in 0..(Len(chunks) - 1), a \in SetArgs :
       LET r == set_value_at_index(chunks, ci, a[1], a[2], a[3])
       IN /\ chunks' = r.chunks
          /\ err' = r.err
          /\ last' = [NoCall EXCEPT !.op = "set_value_at_index", !.chunk_index = ci,
                        !.index = a[1], !.new_value = a[2], !.num_bytes = a[3]]
  /\ exported' = << >>
  /\ records' = << >>
  /\ found' = [index |-> NotRequested, chunk |-> None]
  /\ nops' = nops + 1
  /\ UNCHANGED << recs, data, state, meta >>

\* newPNG.chunks[ci].data = p  (wholesale payload replacement)
ReplacePayload ==
  /\ Ready
  /\ \E ci \in 0..(Len(chunks) - 1), p \in PayloadArgs :
       /\ chunks' = [chunks EXCEPT ![ci + 1].data = p]
       /\ last' = [NoCall EXCEPT !.op = "replace_payload", !.chunk_index = ci, !.payload = p]
  /\ err' = NoError
  /\ exported' = << >>
  /\ records' = << >>
  /\ found' = [index |-> NotRequested, chunk |-> None]
  /\ nops' = nops + 1
  /\ UNCHANGED << recs, data, state, meta >>

\* newPNG.chunks.append(Chunk(t, p))
AppendChunk ==
  /\ Ready
  /\ \E a \in AppendArgs :
       /\ chunks' = Append(chunks, Chunk(a[1], a[2]))
       /\ last' = [NoCall EXCEPT !.op = "append", !.type = a[1], !.payload = a[2]]
  /\ err' = NoError
  /\ exported' = << >>
  /\ records' = << >>
  /\ found' = [index |-> NotRequested, chunk |-> None]
  /\ nops' = nops + 1
  /\ UNCHANGED << recs, data, state, meta >>

\* del newPNG.chunks[ci]
RemoveChunk ==
  /\ Ready
  /\ \E ci \in 0..(Len(chunks) - 1) :
       /\ chunks' = SubSeq(chunks, 1, ci) \o SubSeq(chunks, ci + 2, Len(chunks))
       /\ last' = [NoCall EXCEPT !.op = "remove", !.chunk_index = ci]
  /\ err' = NoError
  /\ exported' = << >>
  /\ records' = << >>
  /\ found' = [index |-> NotRequested, chunk |-> None]
  /\ nops' = nops + 1
  /\ UNCHANGED << recs, data, state, meta >>

\* newPNG.chunks[ci].calculate_crc32()  (direct call of the public method)
CalculateCrc32 ==
  /\ Ready
  /\ \E ci \in 0..(Len(chunks) - 1) :
       /\ chunks' = [chunks EXCEPT ![ci + 1] = calculate_crc32(chunks[ci + 1])]
       /\ last' = [NoCall EXCEPT !.op = "calculate_crc32", !.chunk_index = ci]
  /\ err' = NoError
  /\ exported' = << >>
  /\ records' = << >>
  /\ found' = [index |-> NotRequested, chunk |-> None]
  /\ nops' = nops + 1
  /\ UNCHANGED << recs, data, state, meta >>

\* newPNG.chunks[ci].export_chunk()  (direct call of the public method);
\* the returned record is kept as the only element of records
ExportChunk ==
  /\ Ready
  /\ \E ci \in 0..(Len(chunks) - 1) :
       LET r == export_chunk(chunks[ci + 1])
       IN /\ chunks' = [chunks EXCEPT ![ci + 1] = r.chunk]
          /\ records' = << r.out >>
          /\ last' = [NoCall EXCEPT !.op = "export_chunk", !.chunk_index = ci]
  /\ err' = NoError
  /\ exported' = << >>
  /\ found' = [index |-> NotRequested, chunk |-> None]
  /\ nops' = nops + 1
  /\ UNCHANGED << recs, data, state, meta >>

Next ==
  \/ Construct
  \/ ExportImage
  \/ Lookup
  \/ SetValueAtIndex
  \/ ReplacePayload
  \/ AppendChunk
  \/ RemoveChunk
  \/ CalculateCrc32
  \/ ExportChunk

Spec == Init /\ [][Next]_vars

NextParse ==
  \/ Construct
  \/ ExportImage

SpecParse == InitParse /\ [][NextParse]_vars

----------------------------------------------------------------------------
(* Vocabulary of the properties *)

HasType(cs, t) == \E i \in 1..Len(cs) : cs[i].type = t

Count(cs, t) == Cardinality({ i \in 1..Len(cs) : cs[i].type = t })

OfType(cs, t) == SelectSeq(cs, LAMBDA c : c.type = t)

\* a record that is complete and declares the length of its payload
WellFormedRec(r) ==
  /\ Len(r.size) = 4 /\ Len(r.type) = 4 /\ Len(r.crc32) = 4
  /\ r.size = ToBytes(Len(r.data), 4)

SignatureOk == Len(data) >= 8 /\ SubSeq(data, 1, 8) = PNG_HEADER

TerminatorOk == Len(data) >= 8 /\ SubSeq(data, Len(data) - 7, Len(data)) = PNG_FOOTER

CriticalTags == { IHDR, PLTE, IDAT, IEND }

NonRepeatable == { IHDR, PLTE, IEND }

\* the sixteen ancillary types the specification enumerates
SixteenAncillary ==
  { bKGD, cHRM, dSIG, eXIF, gAMA, hIST, iCCP, iTXt,
    pHYs, sBIT, sPLT, sTER, tEXt, tIME, tRNS, zTXt }

SeventeenAncillary == SixteenAncillary \cup { sRGB }

RepeatsEarlier(k) ==
  /\ recs[k].type \in NonRepeatable
  /\ \E j \in 1..(k - 1) : recs[j].type = recs[k].type

\* record k is reached by the walk: the buffer passes the signature and
\* terminator test and every earlier record is complete and is accepted
\* (its tag is in Known and it is no disallowed repeat)
Reached(k, Known) ==
  /\ state # "new"
  /\ SignatureOk /\ TerminatorOk
  /\ \A j \in 1..(k - 1) :
       /\ WellFormedRec(recs[j])
       /\ recs[j].type \in Known
       /\ ~RepeatsEarlier(j)

Parsed == state = "parsed"

NoContainer == state = "failed" /\ chunks = << >>

----------------------------------------------------------------------------
(* C1 *)

\* C1 as stated: whenever the buffer parsed and export is called with no
\* mutation in between, the exported bytes equal the buffer, whatever its
\* stored checksums and declared lengths.
RoundTripEveryBuffer ==
  (last.op = "export" /\ err = NoError) => exported = data

StoredChecksumsMatch ==
  LET cs == split_chunks(data).chunks
  IN \A i \in 1..Len(cs) : cs[i].crc32 = crc32(cs[i].type \o cs[i].data)

\* C1 amended: the exported bytes equal the buffer when every chunk parse
\* read from it carries a stored checksum equal to crc32(tag ++ payload).
RoundTripMatchingChecksums ==
  (last.op = "export" /\ err = NoError /\ StoredChecksumsMatch) => exported = data

RoundTripWitness ==
  /\ last.op = "export" /\ err = NoError
  /\ StoredChecksumsMatch
  /\ Len(chunks) >= 4
  /\ exported = data

----------------------------------------------------------------------------
(* C2 *)

\* C2: a buffer with valid signature and terminator, made of complete
\* recognised records without disallowed repeats, that holds a header
\* declaring colour type 3, primary data and the end marker but no palette,
\* fails to parse with MissingChunkError and yields no Container.
PaletteRequiredAtParse ==
  ( /\ state # "new"
    /\ SignatureOk /\ TerminatorOk
    /\ \A k \in 1..Len(recs) :
         /\ WellFormedRec(recs[k])
         /\ recs[k].type \in CriticalTags \cup SeventeenAncillary
         /\ ~RepeatsEarlier(k)
    /\ \E k \in 1..Len(recs) :
         recs[k].type = IHDR /\ Len(recs[k].data) = 13 /\ recs[k].data[10] = 3
    /\ HasType(recs, IDAT) /\ HasType(recs, IEND)
    /\ ~HasType(recs, PLTE) )
  => (NoContainer /\ err.kind = "MissingChunkError")

----------------------------------------------------------------------------
(* C3 *)

\* C3: a set_value_at_index call whose window index + num_bytes exceeds the
\* length of the addressed chunk's payload fails with BoundsError and leaves
\* every chunk as it was.
MutationBounds ==
  [][ ( /\ last'.op = "set_value_at_index"
        /\ last'.index + last'.num_bytes > Len(chunks[last'.chunk_index + 1].data) )
      => (err'.kind = "BoundsError" /\ chunks' = chunks) ]_vars

----------------------------------------------------------------------------
(* C4 *)

\* C4: after a successful export, every emitted record is the record of the
\* chunk at its position and ends with the big-endian CRC-32 of that chunk's
\* current tag ++ payload; the record of an empty end marker ends with the
\* checksum bytes of the terminator pattern.  The record a direct
\* export_chunk call returns ends with that chunk's CRC-32 as well.
ExportChecksums ==
  /\ last.op = "export_chunk" =>
       LET r == records[1]
           c == chunks[last.chunk_index + 1]
       IN /\ Len(r) = 12 + Len(c.data)
          /\ SubSeq(r, Len(r) - 3, Len(r)) = crc32(c.type \o c.data)
  /\ (last.op = "export" /\ err = NoError) =>
    /\ Len(records) = Len(chunks)
    /\ exported = PNG_HEADER \o Flatten(records)
    /\ \A i \in 1..Len(chunks) :
         LET r == records[i]
             c == chunks[i]
         IN /\ Len(r) = 12 + Len(c.data)
            /\ SubSeq(r, 5, 8) = c.type
            /\ SubSeq(r, 9, Len(r) - 4) = c.data
            /\ SubSeq(r, Len(r) - 3, Len(r)) = crc32(c.type \o c.data)
            /\ (c.type = IEND /\ c.data = << >>) =>
                 SubSeq(r, Len(r) - 3, Len(r)) = SubSeq(PNG_FOOTER, 5, 8)

ExportChecksumsWitness ==
  /\ last.op = "export" /\ err = NoError
  /\ nops >= 2
  /\ exported # data

----------------------------------------------------------------------------
(* C5 *)

\* C5: the last chunk of every parsed Container is the end marker with an
\* empty payload.
TerminatorIsLast ==
  Parsed => ( /\ Len(chunks) >= 1
              /\ chunks[Len(chunks)].type = IEND
              /\ chunks[Len(chunks)].data = << >> )

----------------------------------------------------------------------------
(* C6 *)

\* C6: (a) when the walk reaches a record repeating IHDR, PLTE or IEND,
\* parse fails with DuplicateChunkError and yields no Container; (b) a
\* DuplicateChunkError is never about IDAT, and (c) a parsed Container built
\* from complete records holds the IDAT records of the buffer, each as its
\* own chunk, in buffer order; (d) a parsed Container holds at most one
\* chunk each of IHDR, PLTE and IEND.
DuplicateRejection ==
  /\ \A k \in 1..Len(recs) :
       ( /\ Reached(k, CriticalTags \cup SeventeenAncillary)
         /\ Len(recs[k].size) = 4
         /\ RepeatsEarlier(k) )
       => (NoContainer /\ err = Error("DuplicateChunkError", recs[k].type))
  /\ err.kind = "DuplicateChunkError" => err.type \in NonRepeatable
  /\ (Parsed /\ \A k \in 1..Len(recs) : WellFormedRec(recs[k])) =>
       /\ Len(chunks) = Len(recs)
       /\ \A i \in 1..Len(OfType(recs, IDAT)) :
            OfType(chunks, IDAT)[i].data = OfType(recs, IDAT)[i].data
       /\ Len(OfType(chunks, IDAT)) = Len(OfType(recs, IDAT))
  /\ Parsed => \A t \in NonRepeatable : Count(chunks, t) <= 1

DuplicateRejectionWitness ==
  /\ NoContainer
  /\ err = Error("DuplicateChunkError", PLTE)
  /\ \E k \in 1..Len(recs) : Reached(k, CriticalTags \cup SeventeenAncillary) /\ RepeatsEarlier(k)

----------------------------------------------------------------------------
(* C7 *)

\* C7: when the walk reaches a record whose tag is outside the critical set
\* and outside every ancillary type (the sixteen enumerated ones, and sRGB,
\* which the source lists as well), parse fails with UnknownChunkError about
\* that tag and yields no Container.
UnknownTagRejected ==
  \A k \in 1..Len(recs) :
    ( /\ Reached(k, CriticalTags \cup SeventeenAncillary)
      /\ Len(recs[k].size) = 4
      /\ recs[k].type \notin CriticalTags \cup SeventeenAncillary )
    => (NoContainer /\ err = Error("UnknownChunkError", recs[k].type))

----------------------------------------------------------------------------
(* C8 *)

LookupResultOk ==
  LET t == last.type
      pos == { i \in 1..Len(chunks) : chunks[i].type = t }
      n == Cardinality(pos)
      ix == found.index
      ch == found.chunk
  IN /\ (~last.want_index) => ix = NotRequested
     /\ n = 0 => (ch = None /\ (last.want_index => ix = None))
     /\ n = 1 => LET i == CHOOSE i \in pos : TRUE
                 IN /\ ch = One(chunks[i])
                    /\ last.want_index => ix = One(i - 1)
     /\ n >= 2 =>
          /\ ch = Many(OfType(chunks, t))
          /\ last.want_index =>
               /\ ix.kind = "Many"
               /\ Len(ix.val) = n
               /\ { ix.val[k] + 1 : k \in 1..n } = pos
               /\ \A k \in 1..(n - 1) : ix.val[k] < ix.val[k + 1]

\* C8: a lookup returns None when no chunk has the tag, the single chunk
\* when exactly one has it and the ordered list of all matching chunks when
\* two or more have it; requested positions have the same shape and are the
\* 0-based sequence positions of those chunks; the lookup leaves the chunk
\* sequence as it was.
LookupArity ==
  [][ last'.op = "lookup" => (chunks' = chunks /\ LookupResultOk') ]_vars

LookupArityWitness ==
  /\ last.op = "lookup" /\ last.want_index
  /\ found.chunk.kind = "Many"
  /\ found.index.kind = "Many"
  /\ Len(found.index.val) >= 2

----------------------------------------------------------------------------
(* C9 *)

\* C9: an export on a sequence that lacks a header, a primary-data or an
\* end-marker chunk fails with MissingChunkError naming an absent type and
\* returns no bytes; otherwise it succeeds and returns the signature
\* followed by the records size ++ tag ++ payload ++ checksum of the chunks
\* in sequence order.
ExportRevalidates ==
  last.op = "export" =>
    LET absent == { t \in { IHDR, IDAT, IEND } : ~HasType(chunks, t) }
    IN IF absent # {}
       THEN /\ err.kind = "MissingChunkError"
            /\ err.type \in absent
            /\ exported = << >> /\ records = << >>
       ELSE /\ err = NoError
            /\ Len(records) = Len(chunks)
            /\ \A i \in 1..Len(chunks) :
                 records[i] = chunks[i].size \o chunks[i].type \o chunks[i].data
                                \o crc32(chunks[i].type \o chunks[i].data)
            /\ SubSeq(exported, 1, 8) = PNG_HEADER
            /\ SubSeq(exported, 9, Len(exported)) = Flatten(records)

ExportRevalidatesWitness ==
  /\ last.op = "export"
  /\ err = Error("MissingChunkError", IEND)
  /\ HasType(chunks, IHDR) /\ HasType(chunks, IDAT) /\ ~HasType(chunks, IEND)
  /\ exported = << >>

----------------------------------------------------------------------------
(* C10 *)

\* C10: for every chunk of a Container, the first 4 bytes of its encoded
\* record are the big-endian length of its current payload.
EncodedLengthField ==
  Parsed => \A i \in 1..Len(chunks) :
    SubSeq(export_chunk(chunks[i]).out, 1, 4) = ToBytes(Len(chunks[i].data), 4)

====
